---- MODULE Spec2Model ----
(***************************************************************************)
(* A model of DraggableNetwork (src/DraggableNetwork.py): the pointer and  *)
(* scroll handlers, the hit tester, and the scene they mutate.             *)
(*                                                                         *)
(* Numbers.  Python floats are modelled as fixed-point integers: a data    *)
(* coordinate is a whole number of ticks (Unit ticks = 1.0), a screen      *)
(* coordinate a whole number of pixels.  An expression of the code is      *)
(* evaluated exactly (rationals) and rounded to the nearest tick or pixel, *)
(* half away from zero, when its value is stored, as IEEE rounding is      *)
(* sign-symmetric.  Two quantities that differ by at most Tol ticks are    *)
(* equal "within floating-point tolerance".                                *)
(***************************************************************************)
EXTENDS Integers, Sequences, FiniteSets, TLC

VARIABLES
    G,                \* the graph: [nodes: Seq(id), edges: Seq(<<id, id>>)]
    nodes,            \* offsets of the node collection: Seq(<<x, y>>)
    nodes0,           \* offsets of the optional second collection, or None
    node_size,        \* None or the per-node sizes
    node_size_radius, \* None or the per-node pixel radii
    edges,            \* Seq([posA, posB]): each patch's _posA_posB
    labels,           \* Seq([text, pos]): the Text artists, in G's node order
    xlim, ylim,       \* the viewport: <<lo, hi>> in ticks
    _ind,             \* selected node index (1-based), NoInd for None
    move_from,        \* panning anchor <<x, y>> in pixels, NoAnchor for 0
    btn1_label,       \* caption of the Save button
    btn2_label,       \* caption of the Load button
    disk,             \* the position file the save dialog names: [exists, lines]
    ui_pc,            \* where the UI thread is inside a button's on_clicked handler
    save_pc,          \* where the save worker thread is
    load_pc,          \* where the load worker thread is
    load_f,           \* load_thread's f: the name of the file it opened
    lines,            \* load_thread's lines
    initial_position, \* load_thread's local mapping key -> <<x, y>>
    saved,            \* history: what the last save wrote, the scene it wrote it
                      \* of, and whether no load task was running then
    hist,             \* history: what the step before did, if it was a pointer-move
                      \* or a scroll, and the viewport it found
    nOps              \* how many scene- or viewport-changing events were delivered

vars == <<G, nodes, nodes0, node_size, node_size_radius, edges, labels,
          xlim, ylim, _ind, move_from, btn1_label, btn2_label, disk, ui_pc,
          save_pc, load_pc, load_f, lines, initial_position, saved, hist, nOps>>

scene == <<nodes, nodes0, edges, labels>>
viewport == <<xlim, ylim>>
config == <<G, node_size, node_size_radius>>
persistence ==
    <<btn1_label, btn2_label, disk, saved, save_pc, load_pc, load_f, lines, initial_position>>

----------------------------------------------------------------------------
(* Bounds of the exploration *)
MaxOps == 2

(* Representation *)
None == <<>>
NoInd == 0
NoAnchor == <<>>
\* ticks per 1.0 of data space: two decimal places
Unit == 100
Tol == 1

(* Program constants *)
epsilon == 30
PanDivisor == 300
GuardX == 130
GuardY == 111
\* np.log(1/0.9) = 0.10536..., np.log(0.9) = -0.10536..., as LogNum / LogDen
LogNum == 10536
LogDen == 100000

(* The pixel box of the main axes in the window, (AxX0, AxY0) its lower left
   corner: matplotlib's default 640x480 figure puts the left edge at pixel 80,
   so part of the axes lies left of GuardX and below GuardY. *)
AxX0 == 80
AxY0 == 60
AxW == 400
AxH == 250

----------------------------------------------------------------------------
(* Arithmetic *)
Abs(a) == IF a < 0 THEN -a ELSE a

RECURSIVE Gcd(_, _)
Gcd(a, b) == IF b = 0 THEN a ELSE Gcd(b, a % b)

\* a / b rounded to the nearest integer, half away from zero (b > 0)
RoundDiv(a, b) ==
    IF a >= 0 THEN (2 * a + b) \div (2 * b) ELSE -((2 * (-a) + b) \div (2 * b))

\* exact rationals [n, d] with d > 0, kept in lowest terms
Rat(n, d) ==
    LET s == IF d < 0 THEN -1 ELSE 1
        g == Gcd(Abs(n), Abs(d))
    IN  [n |-> (s * n) \div g, d |-> (s * d) \div g]

RatMul(p, q) ==
    LET g1 == Gcd(Abs(p.n), q.d)
        g2 == Gcd(Abs(q.n), p.d)
        h1 == IF g1 = 0 THEN 1 ELSE g1
        h2 == IF g2 = 0 THEN 1 ELSE g2
    IN  Rat((p.n \div h1) * (q.n \div h2), (p.d \div h2) * (q.d \div h1))

RatDiv(p, q) == RatMul(p, Rat(q.d, q.n))

RatRound(p) == RoundDiv(p.n, p.d)

Near(a, b) == Abs(a - b) <= Tol

----------------------------------------------------------------------------
(* Coordinate transforms of the axes *)
N == Len(nodes)
Idx == 1..N

InAxes(px, py) ==
    /\ AxX0 <= px /\ px <= AxX0 + AxW
    /\ AxY0 <= py /\ py <= AxY0 + AxH

\* ax.transData.transform: data -> pixels under the current viewport
transData(p) ==
    << AxX0 + RoundDiv((p[1] - xlim[1]) * AxW, xlim[2] - xlim[1]),
       AxY0 + RoundDiv((p[2] - ylim[1]) * AxH, ylim[2] - ylim[1]) >>

\* event.xdata, event.ydata: pixels -> data under the current viewport
xdata(e) == xlim[1] + RoundDiv((e.x - AxX0) * (xlim[2] - xlim[1]), AxW)
ydata(e) == ylim[1] + RoundDiv((e.y - AxY0) * (ylim[2] - ylim[1]), AxH)

----------------------------------------------------------------------------
(* Hit tester *)
\* d[i] ** 2: sqrt is monotone, so distances are compared by their squares
Dist2(i, e) ==
    LET t == transData(nodes[i])
    IN  (t[1] - e.x) * (t[1] - e.x) + (t[2] - e.y) * (t[2] - e.y)

\* d.argmin(): the first index of a minimal distance
ArgMin(e) ==
    CHOOSE i \in Idx :
        /\ \A j \in Idx : Dist2(i, e) <= Dist2(j, e)
        /\ \A j \in Idx : Dist2(j, e) = Dist2(i, e) => i <= j

Threshold(i) == IF node_size = None THEN epsilon ELSE node_size_radius[i]

\* a variant that accepts a distance equal to the threshold
get_ind_under_point_inclusive(e) ==
    LET ind == ArgMin(e)
    IN  IF node_size = None
        THEN IF Dist2(ind, e) > epsilon * epsilon THEN NoInd ELSE ind
        ELSE IF Dist2(ind, e) > node_size_radius[ind] * node_size_radius[ind]
             THEN NoInd ELSE ind

get_ind_under_point(e) ==
    LET ind == ArgMin(e)
    IN  IF node_size = None
        THEN IF Dist2(ind, e) >= epsilon * epsilon THEN NoInd ELSE ind
        ELSE IF Dist2(ind, e) >= node_size_radius[ind] * node_size_radius[ind]
             THEN NoInd ELSE ind

----------------------------------------------------------------------------
(* Events *)
Points == { <<280, 185>>, <<330, 210>>, <<236, 268>>, <<248, 284>>,
            <<380, 105>>, <<40, 30>> }

Event(k, p, b, d) == [kind |-> k, x |-> p[1], y |-> p[2], button |-> b, dir |-> d]

\* button: 1 primary, 3 secondary, 0 none held (a move's event.button is None).
\* A release and a scroll carry a pointer position that no handler reads.
PressEvents ==
    { Event("press", p, 1, "") : p \in Points } \cup { Event("press", <<330, 210>>, 3, "") }
ReleaseEvents == { Event("release", <<0, 0>>, b, "") : b \in {1, 3} }
MoveEvents ==
    { Event("move", p, 1, "") : p \in {<<280, 185>>, <<330, 210>>, <<236, 268>>, <<40, 30>>} }
        \cup { Event("move", p, 0, "") : p \in {<<330, 210>>, <<40, 30>>} }
ScrollEvents ==
    { Event("scroll", p, 0, d) : p \in {<<280, 185>>, <<40, 30>>}, d \in {"up", "down", "other"} }

\* the history record: kind is "pan", "drag" or "return" after a pointer-move,
\* "scroll" after a scroll, "ValueError" or "KeyError" after the step of the
\* load task that raised it, and "" after any other step
NoHistory == [kind |-> "", xlim |-> << >>, ylim |-> << >>, dx |-> 0, dy |-> 0, dir |-> ""]
Did(k) == [NoHistory EXCEPT !.kind = k]

----------------------------------------------------------------------------
(* Drag controller *)
PressProceeds(e) ==
    /\ InAxes(e.x, e.y)
    /\ e.button = 1
    /\ ~(e.x < GuardX \/ e.y < GuardY)

button_press_callback(e) ==
    /\ ui_pc = "idle"
    /\ hist' = NoHistory
    /\ IF PressProceeds(e)
       THEN LET hit == get_ind_under_point(e)
            IN  /\ _ind' = hit
                /\ move_from' = IF hit = NoInd THEN <<e.x, e.y>> ELSE move_from
       ELSE UNCHANGED <<_ind, move_from>>
    /\ UNCHANGED <<config, scene, viewport, persistence, ui_pc, nOps>>

\* a variant that clears the selected index only
button_release_callback_keepsAnchor(e) ==
    /\ ui_pc = "idle"
    /\ hist' = NoHistory
    /\ IF e.button # 1
       THEN UNCHANGED <<_ind, move_from>>
       ELSE _ind' = NoInd /\ UNCHANGED move_from
    /\ UNCHANGED <<config, scene, viewport, persistence, ui_pc, nOps>>

button_release_callback(e) ==
    /\ ui_pc = "idle"
    /\ hist' = NoHistory
    /\ IF e.button # 1
       THEN UNCHANGED <<_ind, move_from>>
       ELSE _ind' = NoInd /\ move_from' = NoAnchor
    /\ UNCHANGED <<config, scene, viewport, persistence, ui_pc, nOps>>

\* a variant without the check of the held button
MoveReturnsEarly_anyButton(e) ==
    \/ (_ind = NoInd /\ move_from = NoAnchor)
    \/ ~InAxes(e.x, e.y)

MoveReturnsEarly(e) ==
    \/ (_ind = NoInd /\ move_from = NoAnchor)
    \/ ~InAxes(e.x, e.y)
    \/ e.button # 1

\* a variant with a sign slip on the upper limit
PanXlim_upperAdded(e) ==
    LET cur_xrange == xlim[2] - xlim[1]
        xd == RatRound(RatMul(Rat(e.x - move_from[1], PanDivisor), Rat(cur_xrange, 1)))
    IN  <<xlim[1] - xd, xlim[2] + xd>>

\* lines 122-133: the shifted limits
PanXlim(e) ==
    LET cur_xrange == xlim[2] - xlim[1]
        xd == RatRound(RatMul(Rat(e.x - move_from[1], PanDivisor), Rat(cur_xrange, 1)))
    IN  <<xlim[1] - xd, xlim[2] - xd>>

\* a variant that leaves out the division by xy_factor
PanYlim_noFactor(e) ==
    LET cur_xrange == xlim[2] - xlim[1]
        yd == RatRound(RatMul(Rat(e.y - move_from[2], PanDivisor), Rat(cur_xrange, 1)))
    IN  <<ylim[1] - yd, ylim[2] - yd>>

PanYlim(e) ==
    LET cur_xrange == xlim[2] - xlim[1]
        cur_yrange == ylim[2] - ylim[1]
        xy_factor == Rat(cur_xrange, cur_yrange)
        yd == RatRound(RatMul(RatDiv(Rat(e.y - move_from[2], PanDivisor), xy_factor),
                              Rat(cur_xrange, 1)))
    IN  <<ylim[1] - yd, ylim[2] - yd>>

\* lines 145-151: one edge patch after the move of the node at target_pos
MoveEdge(edge, target_pos, new) ==
    IF edge.posA = target_pos \/ edge.posB = target_pos
    THEN IF edge.posA = target_pos
         THEN [posA |-> new, posB |-> edge.posB]
         ELSE [posA |-> edge.posA, posB |-> new]
    ELSE edge

\* lines 152-155
MoveLabel(label, target_pos, new) ==
    IF label.pos = target_pos THEN [label EXCEPT !.pos = new] ELSE label

motion_notify_callback(e) ==
    /\ ui_pc = "idle"
    /\ IF MoveReturnsEarly(e)
       THEN /\ hist' = Did("return")
            /\ UNCHANGED <<scene, viewport, move_from, nOps>>
       ELSE IF move_from # NoAnchor
       THEN /\ nOps < MaxOps
            /\ hist' = [Did("pan") EXCEPT !.xlim = xlim, !.ylim = ylim,
                                          !.dx = e.x - move_from[1],
                                          !.dy = e.y - move_from[2]]
            /\ xlim' = PanXlim(e)
            /\ ylim' = PanYlim(e)
            /\ move_from' = <<e.x, e.y>>
            /\ nOps' = nOps + 1
            /\ UNCHANGED scene
       ELSE /\ nOps < MaxOps
            /\ hist' = Did("drag")
            /\ LET new == <<xdata(e), ydata(e)>>
                   target_pos == nodes[_ind]
                   xy == [nodes EXCEPT ![_ind] = new]
               IN  /\ edges' = [k \in 1..Len(edges) |-> MoveEdge(edges[k], target_pos, new)]
                   /\ labels' = [k \in 1..Len(labels) |-> MoveLabel(labels[k], target_pos, new)]
                   /\ nodes' = xy
                   /\ nodes0' = IF nodes0 # None THEN xy ELSE nodes0
            /\ nOps' = nOps + 1
            /\ UNCHANGED <<viewport, move_from>>
    /\ UNCHANGED <<config, _ind, persistence, ui_pc>>

----------------------------------------------------------------------------
(* Zoom controller *)
\* scale_factor as a rational
ScaleFactor(d) ==
    IF d = "up" THEN Rat(LogNum, LogDen)
    ELSE IF d = "down" THEN Rat(-LogNum, LogDen)
    ELSE Rat(1, 1)

\* a variant that widens the axis at its upper end only
ZoomLim_upperOnly(lim, d) ==
    LET cur_range == Rat(lim[2] - lim[1], 2)
        delta == RatRound(RatMul(cur_range, ScaleFactor(d)))
    IN  <<lim[1], lim[2] + 2 * delta>>

\* lines 168-186 on one axis
ZoomLim(lim, d) ==
    LET cur_range == Rat(lim[2] - lim[1], 2)
        delta == RatRound(RatMul(cur_range, ScaleFactor(d)))
    IN  <<lim[1] - delta, lim[2] + delta>>

zoom_fun(e) ==
    /\ ui_pc = "idle"
    /\ nOps < MaxOps
    /\ hist' = [Did("scroll") EXCEPT !.xlim = xlim, !.ylim = ylim, !.dir = e.dir]
    /\ xlim' = ZoomLim(xlim, e.dir)
    /\ ylim' = ZoomLim(ylim, e.dir)
    /\ nOps' = nOps + 1
    /\ UNCHANGED <<config, scene, _ind, move_from, persistence, ui_pc>>

----------------------------------------------------------------------------
(* Scene construction: the networkx drawing calls *)
\* a node identifier: an int or a str, with its decimal text
IntId(t) == [kind |-> "int", text |-> t]
StrId(t) == [kind |-> "str", text |-> t]

\* str(n): the int 1 and the str '1' both give the str '1'
str(id) == StrId(id.text)

\* the demonstration's graph reduced to three nodes; the second graph has a
\* self-loop as well
GraphOf(ids, loop) ==
    [nodes |-> ids,
     edges |-> << <<ids[1], ids[2]>>, <<ids[2], ids[3]>>, <<ids[1], ids[3]>> >>
               \o (IF loop THEN << <<ids[2], ids[2]>> >> ELSE << >>)]

NodeIds(g) == { g.nodes[i] : i \in 1..Len(g.nodes) }
IndexOf(g, id) == CHOOSE i \in 1..Len(g.nodes) : g.nodes[i] = id

\* pos[n] raises KeyError unless n is a key of pos
HasAllNodes(g, position) == NodeIds(g) \subseteq DOMAIN position

draw_networkx_labels(g, position) ==
    [i \in 1..Len(g.nodes) |-> [text |-> str(g.nodes[i]), pos |-> position[g.nodes[i]]]]

draw_networkx_edges(g, position) ==
    [k \in 1..Len(g.edges) |->
        [posA |-> position[g.edges[k][1]], posB |-> position[g.edges[k][2]]]]

draw_networkx_nodes(g, position) == [i \in 1..Len(g.nodes) |-> position[g.nodes[i]]]

SetMin(S) == CHOOSE a \in S : \A b \in S : a <= b
SetMax(S) == CHOOSE a \in S : \A b \in S : b <= a

\* the limits an axis is autoscaled to by the drawing calls after ax.cla():
\* networkx pads the edges' bounding box by 5%, autoscale_view adds its 5%
\* margin, and an empty interval is widened
AutoLim(vals) ==
    LET lo == SetMin(vals)
        hi == SetMax(vals)
        w == hi - lo
        e == IF lo = 0 THEN 5 ELSE IF 20 * Abs(lo) < Unit THEN 1 ELSE RoundDiv(5 * Abs(lo), 100)
    IN  IF w = 0 THEN <<lo - e, hi + e>>
        ELSE <<lo - RoundDiv(105 * w, 1000), hi + RoundDiv(105 * w, 1000)>>

----------------------------------------------------------------------------
(* The position file: text *)
DigitChars == <<"0", "1", "2", "3", "4", "5", "6", "7", "8", "9">>

RECURSIVE Digits(_)
Digits(n) ==
    IF n < 10 THEN <<DigitChars[n + 1]>>
    ELSE Digits(n \div 10) \o <<DigitChars[(n % 10) + 1]>>

\* str(x) of a coordinate: sign, whole part, point, hundredths
StrNum(v) ==
    (IF v < 0 THEN <<"-">> ELSE << >>)
        \o Digits(Abs(v) \div Unit) \o <<".">>
        \o <<DigitChars[((Abs(v) % Unit) \div 10) + 1], DigitChars[(Abs(v) % 10) + 1]>>

\* line 204: key + ':' + str(x) + ',' + str(y)
LineOf(label) ==
    label.text.text \o <<":">> \o StrNum(label.pos[1]) \o <<",">> \o StrNum(label.pos[2])

RECURSIVE split(_, _)
\* s.split(c)
split(s, c) ==
    IF \A i \in 1..Len(s) : s[i] # c THEN <<s>>
    ELSE LET i == CHOOSE i \in 1..Len(s) : s[i] = c /\ \A j \in 1..(i - 1) : s[j] # c
         IN  <<SubSeq(s, 1, i - 1)>> \o split(SubSeq(s, i + 1, Len(s)), c)

IsDigits(s) == \A i \in 1..Len(s) : \E d \in 1..10 : DigitChars[d] = s[i]
DigitVal(ch) == (CHOOSE d \in 1..10 : DigitChars[d] = ch) - 1

RECURSIVE NatOf(_)
NatOf(s) ==
    IF Len(s) = 0 THEN 0
    ELSE NatOf(SubSeq(s, 1, Len(s) - 1)) * 10 + DigitVal(s[Len(s)])

Unsigned(s) == IF Len(s) > 0 /\ s[1] = "-" THEN Tail(s) ELSE s

\* float(s) succeeds
IsFloat(s) ==
    LET parts == split(Unsigned(s), ".")
    IN  /\ Len(parts) \in {1, 2}
        /\ Len(parts[1]) > 0 /\ IsDigits(parts[1])
        /\ Len(parts) = 2 => (Len(parts[2]) <= 2 /\ IsDigits(parts[2]))

\* float(s), in ticks
float(s) ==
    LET parts == split(Unsigned(s), ".")
        frac == IF Len(parts) = 2 THEN parts[2] ELSE << >>
        hundredths == IF Len(frac) = 1 THEN 10 * NatOf(frac) ELSE NatOf(frac)
        magnitude == NatOf(parts[1]) * Unit + hundredths
    IN  IF Len(s) > 0 /\ s[1] = "-" THEN -magnitude ELSE magnitude

\* lines 217-219 succeed on the line: both unpackings and both float() calls
LineParses(line) ==
    LET p == split(line, ":")
    IN  /\ Len(p) = 2
        /\ LET q == split(p[2], ",")
           IN  Len(q) = 2 /\ IsFloat(q[1]) /\ IsFloat(q[2])

LineKey(line) == StrId(split(line, ":")[1])
LinePos(line) ==
    LET q == split(split(line, ":")[2], ",") IN <<float(q[1]), float(q[2])>>

\* lines 214-219 on a file whose lines all parse: a later line replaces an
\* earlier one with the same key
ParseLines(ls) ==
    [k \in { LineKey(ls[i]) : i \in 1..Len(ls) } |->
        LET last == CHOOSE i \in 1..Len(ls) :
                        /\ LineKey(ls[i]) = k
                        /\ \A j \in (i + 1)..Len(ls) : LineKey(ls[j]) # k
        IN  LinePos(ls[last])]

EmptyMap == [k \in {} |-> <<0, 0>>]
NoFile == [exists |-> FALSE, lines |-> << >>]
NotSaved == [lines |-> << >>, nodes |-> << >>, labels |-> << >>, quiet |-> FALSE]

\* files on disk from earlier sessions: a well-formed one, in which node 2 is
\* where the demonstration draws it, one whose second line lacks its ':' and
\* one whose first line lacks its ','
OldFile ==
    << <<"1">> \o <<":">> \o StrNum(-150) \o <<",">> \o StrNum(-100),
       <<"2">> \o <<":">> \o StrNum(100) \o <<",">> \o StrNum(100),
       <<"3">> \o <<":">> \o StrNum(250) \o <<",">> \o StrNum(50) >>

BadFile ==
    << <<"1">> \o <<":">> \o StrNum(0) \o <<",">> \o StrNum(200),
       <<"2">> \o StrNum(-150) \o <<",">> \o StrNum(-100) >>

NoCommaFile ==
    << <<"1">> \o <<":">> \o StrNum(0) \o StrNum(200),
       <<"2">> \o <<":">> \o StrNum(-150) \o <<",">> \o StrNum(-100) >>

FileNames == {"pos.txt", "old.txt", "bad.txt", "nocomma.txt"}

Exists(name) == name # "pos.txt" \/ disk.exists

Content(name) ==
    IF name = "pos.txt" THEN disk.lines
    ELSE IF name = "old.txt" THEN OldFile
    ELSE IF name = "bad.txt" THEN BadFile ELSE NoCommaFile

----------------------------------------------------------------------------
(* Persistence flow: the buttons' handlers on the UI thread *)

\* save_pos_button up to t1.start()
save_pos_button_start ==
    /\ ui_pc = "idle" /\ save_pc = "idle"
    /\ nOps < MaxOps
    /\ save_pc' = "dialog"
    /\ ui_pc' = "save"
    /\ nOps' = nOps + 1
    /\ hist' = NoHistory
    /\ UNCHANGED <<config, scene, viewport, _ind, move_from, btn1_label, btn2_label,
                   disk, saved, load_pc, load_f, lines, initial_position>>

\* save_pos_button from set_text('Saving...')
save_pos_button_caption ==
    /\ ui_pc = "save"
    /\ btn1_label' = "Saving..."
    /\ ui_pc' = "idle"
    /\ hist' = NoHistory
    /\ UNCHANGED <<config, scene, viewport, _ind, move_from, btn2_label, disk, saved,
                   save_pc, load_pc, load_f, lines, initial_position, nOps>>

\* load_pos_button up to t2.start()
load_pos_button_start ==
    /\ ui_pc = "idle" /\ load_pc = "idle"
    /\ nOps < MaxOps
    /\ load_pc' = "dialog"
    /\ ui_pc' = "load"
    /\ nOps' = nOps + 1
    /\ hist' = NoHistory
    /\ UNCHANGED <<config, scene, viewport, _ind, move_from, btn1_label, btn2_label,
                   disk, saved, save_pc, load_f, lines, initial_position>>

\* load_pos_button from set_text('Loading...')
load_pos_button_caption ==
    /\ ui_pc = "load"
    /\ btn2_label' = "Loading..."
    /\ ui_pc' = "idle"
    /\ hist' = NoHistory
    /\ UNCHANGED <<config, scene, viewport, _ind, move_from, btn1_label, disk, saved,
                   save_pc, load_pc, load_f, lines, initial_position, nOps>>

----------------------------------------------------------------------------
(* Persistence flow: saving_thread *)

\* line 198 returns None: the dialog was cancelled
saving_thread_cancel ==
    /\ save_pc = "dialog"
    /\ save_pc' = "caption"
    /\ hist' = NoHistory
    /\ UNCHANGED <<config, scene, viewport, _ind, move_from, btn1_label, btn2_label,
                   disk, saved, ui_pc, load_pc, load_f, lines, initial_position, nOps>>

\* line 198 returns a file: mode 'w' creates or empties it
saving_thread_open ==
    /\ save_pc = "dialog"
    /\ disk' = [exists |-> TRUE, lines |-> << >>]
    /\ save_pc' = "write"
    /\ hist' = NoHistory
    /\ UNCHANGED <<config, scene, viewport, _ind, move_from, btn1_label, btn2_label,
                   saved, ui_pc, load_pc, load_f, lines, initial_position, nOps>>

\* lines 200-206
saving_thread_write ==
    /\ save_pc = "write"
    /\ LET string == [i \in 1..Len(labels) |-> LineOf(labels[i])]
       IN  /\ disk' = [exists |-> TRUE, lines |-> string]
           /\ saved' = [lines |-> string, nodes |-> nodes, labels |-> labels,
                        quiet |-> load_pc = "idle"]
    /\ save_pc' = "caption"
    /\ hist' = NoHistory
    /\ UNCHANGED <<config, scene, viewport, _ind, move_from, btn1_label, btn2_label,
                   ui_pc, load_pc, load_f, lines, initial_position, nOps>>

\* lines 207-208
saving_thread_caption ==
    /\ save_pc = "caption"
    /\ btn1_label' = "Save positions"
    /\ save_pc' = "idle"
    /\ hist' = NoHistory
    /\ UNCHANGED <<config, scene, viewport, _ind, move_from, btn2_label, disk, saved,
                   ui_pc, load_pc, load_f, lines, initial_position, nOps>>

----------------------------------------------------------------------------
(* Persistence flow: load_thread *)

\* line 212 returns None
load_thread_cancel ==
    /\ load_pc = "dialog"
    /\ load_pc' = "caption"
    /\ hist' = NoHistory
    /\ UNCHANGED <<config, scene, viewport, _ind, move_from, btn1_label, btn2_label,
                   disk, saved, ui_pc, save_pc, load_f, lines, initial_position, nOps>>

\* line 212 returns an existing file
load_thread_open ==
    /\ load_pc = "dialog"
    /\ \E name \in FileNames :
        /\ Exists(name)
        /\ load_f' = name
    /\ load_pc' = "read"
    /\ hist' = NoHistory
    /\ UNCHANGED <<config, scene, viewport, _ind, move_from, btn1_label, btn2_label,
                   disk, saved, ui_pc, save_pc, lines, initial_position, nOps>>

\* a variant that skips a line that does not parse and goes on to rebuild
load_thread_read_skipsBadLines ==
    /\ load_pc = "read"
    /\ lines' = SelectSeq(Content(load_f), LineParses)
    /\ initial_position' = ParseLines(SelectSeq(Content(load_f), LineParses))
    /\ load_pc' = "cla"
    /\ hist' = NoHistory
    /\ UNCHANGED <<config, scene, viewport, _ind, move_from, btn1_label, btn2_label,
                   disk, saved, ui_pc, save_pc, load_f, nOps>>

\* lines 214-220; a line that does not parse raises ValueError, which ends the
\* thread
load_thread_read ==
    /\ load_pc = "read"
    /\ LET ls == Content(load_f)
       IN  IF \A i \in 1..Len(ls) : LineParses(ls[i])
           THEN /\ lines' = ls
                /\ initial_position' = ParseLines(ls)
                /\ load_pc' = "cla"
                /\ hist' = NoHistory
                /\ UNCHANGED load_f
           ELSE /\ lines' = << >>
                /\ initial_position' = EmptyMap
                /\ load_pc' = "idle"
                /\ load_f' = ""
                /\ hist' = Did("ValueError")
    /\ UNCHANGED <<config, scene, viewport, _ind, move_from, btn1_label, btn2_label,
                   disk, saved, ui_pc, save_pc, nOps>>

\* line 221: the axes are emptied and their limits reset to (0, 1)
load_thread_cla ==
    /\ load_pc = "cla"
    /\ xlim' = <<0, Unit>>
    /\ ylim' = <<0, Unit>>
    /\ load_pc' = "labels"
    /\ hist' = NoHistory
    /\ UNCHANGED <<config, scene, _ind, move_from, btn1_label, btn2_label, disk, saved,
                   ui_pc, save_pc, load_f, lines, initial_position, nOps>>

\* line 223; pos[n] of a node that is no key raises KeyError, which ends the
\* thread
load_thread_labels ==
    /\ load_pc = "labels"
    /\ IF HasAllNodes(G, initial_position)
       THEN /\ labels' = draw_networkx_labels(G, initial_position)
            /\ load_pc' = "edges"
            /\ hist' = NoHistory
            /\ UNCHANGED <<load_f, lines, initial_position>>
       ELSE /\ load_pc' = "idle"
            /\ load_f' = ""
            /\ lines' = << >>
            /\ initial_position' = EmptyMap
            /\ hist' = Did("KeyError")
            /\ UNCHANGED labels
    /\ UNCHANGED <<config, nodes, nodes0, edges, viewport, _ind, move_from, btn1_label,
                   btn2_label, disk, saved, ui_pc, save_pc, nOps>>

\* the limits after a drawing call: autoscaled to the positions drawn
AutoXlim == AutoLim({ initial_position[k][1] : k \in DOMAIN initial_position })
AutoYlim == AutoLim({ initial_position[k][2] : k \in DOMAIN initial_position })

\* line 224
load_thread_edges ==
    /\ load_pc = "edges"
    /\ edges' = draw_networkx_edges(G, initial_position)
    /\ xlim' = AutoXlim
    /\ ylim' = AutoYlim
    /\ load_pc' = "nodes0"
    /\ hist' = NoHistory
    /\ UNCHANGED <<config, nodes, nodes0, labels, _ind, move_from, btn1_label, btn2_label,
                   disk, saved, ui_pc, save_pc, load_f, lines, initial_position, nOps>>

\* lines 225-226
load_thread_nodes0 ==
    /\ load_pc = "nodes0"
    /\ nodes0' = IF nodes0 # None THEN draw_networkx_nodes(G, initial_position) ELSE nodes0
    /\ load_pc' = "nodes"
    /\ hist' = NoHistory
    /\ UNCHANGED <<config, nodes, edges, labels, viewport, _ind, move_from, btn1_label,
                   btn2_label, disk, saved, ui_pc, save_pc, load_f, lines,
                   initial_position, nOps>>

\* line 227
load_thread_nodes ==
    /\ load_pc = "nodes"
    /\ nodes' = draw_networkx_nodes(G, initial_position)
    /\ xlim' = AutoXlim
    /\ ylim' = AutoYlim
    /\ load_pc' = "caption"
    /\ hist' = NoHistory
    /\ UNCHANGED <<config, nodes0, edges, labels, _ind, move_from, btn1_label, btn2_label,
                   disk, saved, ui_pc, save_pc, load_f, lines, initial_position, nOps>>

\* lines 229-230
load_thread_caption ==
    /\ load_pc = "caption"
    /\ btn2_label' = "Load positions"
    /\ load_pc' = "idle"
    /\ load_f' = ""
    /\ lines' = << >>
    /\ initial_position' = EmptyMap
    /\ hist' = NoHistory
    /\ UNCHANGED <<config, scene, viewport, _ind, move_from, btn1_label, disk, saved,
                   ui_pc, save_pc, nOps>>

----------------------------------------------------------------------------
(* Construction *)
\* lines 249-250, three of the demonstration's nodes
demo_position == << <<-100, 300>>, <<100, 100>>, <<200, -300>> >>

PositionOf(g) == [id \in NodeIds(g) |-> demo_position[IndexOf(g, id)]]

\* the caller's choices: the demonstration (integer ids, fixed threshold, one
\* collection) and a call with string ids, node sizes and a second collection
Configs ==
    { [ids |-> <<IntId(<<"1">>), IntId(<<"2">>), IntId(<<"3">>)>>,
       loop |-> FALSE, node_size |-> None, node_size_radius |-> None, nodes0 |-> FALSE],
      [ids |-> <<StrId(<<"1">>), StrId(<<"2">>), StrId(<<"3">>)>>,
       loop |-> TRUE, node_size |-> <<64, 14400, 64>>,
       node_size_radius |-> <<8, 120, 8>>, nodes0 |-> TRUE] }

InitialXlim == <<-400, 400>>
InitialYlim == <<-500, 500>>

Init ==
    \E c \in Configs :
        /\ G = GraphOf(c.ids, c.loop)
        /\ nodes = draw_networkx_nodes(G, PositionOf(G))
        /\ nodes0 = IF c.nodes0 THEN draw_networkx_nodes(G, PositionOf(G)) ELSE None
        /\ node_size = c.node_size
        /\ node_size_radius = c.node_size_radius
        /\ edges = draw_networkx_edges(G, PositionOf(G))
        /\ labels = draw_networkx_labels(G, PositionOf(G))
        /\ xlim = InitialXlim
        /\ ylim = InitialYlim
        /\ _ind = NoInd
        /\ move_from = NoAnchor
        /\ btn1_label = "Save positions"
        /\ btn2_label = "Load positions"
        /\ disk = NoFile
        /\ saved = NotSaved
        /\ ui_pc = "idle"
        /\ save_pc = "idle"
        /\ load_pc = "idle"
        /\ load_f = ""
        /\ lines = << >>
        /\ initial_position = EmptyMap
        /\ hist = NoHistory
        /\ nOps = 0

Press == \E e \in PressEvents : button_press_callback(e)
Release == \E e \in ReleaseEvents : button_release_callback(e)
Move == \E e \in MoveEvents : motion_notify_callback(e)
Scroll == \E e \in ScrollEvents : zoom_fun(e)

Next ==
    \/ Press \/ Release \/ Move \/ Scroll
    \/ save_pos_button_start \/ save_pos_button_caption
    \/ load_pos_button_start \/ load_pos_button_caption
    \/ saving_thread_cancel \/ saving_thread_open
    \/ saving_thread_write \/ saving_thread_caption
    \/ load_thread_cancel \/ load_thread_open \/ load_thread_read
    \/ load_thread_cla \/ load_thread_labels \/ load_thread_edges
    \/ load_thread_nodes0 \/ load_thread_nodes \/ load_thread_caption

Spec == Init /\ [][Next]_vars

\* the pointer and scroll events alone: a session in which no button is clicked
NextUI == Press \/ Release \/ Move \/ Scroll
SpecUI == Init /\ [][NextUI]_vars

----------------------------------------------------------------------------
(* Properties *)

Idle == _ind = NoInd /\ move_from = NoAnchor

\* the pointer-move e is delivered while node i is selected, with the primary
\* button held and the pointer inside the axes
DragCase(i, e) ==
    /\ e.button = 1 /\ InAxes(e.x, e.y)
    /\ _ind = i /\ i # NoInd /\ move_from = NoAnchor

PointerData(e) == <<xdata(e), ydata(e)>>

\* the node an edge endpoint belongs to
OwnerA(k) == IndexOf(G, G.edges[k][1])
OwnerB(k) == IndexOf(G, G.edges[k][2])

\* C1: a pointer-move of the drag of node i puts node i, its label and the
\* endpoints of its incident edges at the pointer's data position and leaves
\* every other node, label and edge endpoint where it was (stated here for the
\* edges that join two different nodes).
C1_DragMovesExactlyTheNode ==
    [][\A i \in Idx : \A e \in MoveEvents :
        (DragCase(i, e) /\ motion_notify_callback(e)) =>
            /\ nodes'[i] = PointerData(e)
            /\ labels'[i].pos = PointerData(e)
            /\ \A j \in Idx \ {i} : nodes'[j] = nodes[j] /\ labels'[j].pos = labels[j].pos
            /\ \A k \in 1..Len(edges) : OwnerA(k) # OwnerB(k) =>
                /\ edges'[k].posA = IF OwnerA(k) = i THEN PointerData(e) ELSE edges[k].posA
                /\ edges'[k].posB = IF OwnerB(k) = i THEN PointerData(e) ELSE edges[k].posB
      ]_vars

\* C2: on a node-drag pointer-move every edge endpoint equal to the dragged
\* node's previous position (posA, posB, or both) becomes the pointer's data
\* position, and every other endpoint is untouched.
C2_EveryMatchingEndpointReplaced ==
    [][\A i \in Idx : \A e \in MoveEvents :
        (DragCase(i, e) /\ motion_notify_callback(e)) =>
            \A k \in 1..Len(edges) :
                /\ edges'[k].posA =
                      IF edges[k].posA = nodes[i] THEN PointerData(e) ELSE edges[k].posA
                /\ edges'[k].posB =
                      IF edges[k].posB = nodes[i] THEN PointerData(e) ELSE edges[k].posB
      ]_vars

FarFromAll(e) == \A i \in Idx : Dist2(i, e) >= Threshold(i) * Threshold(i)

\* C3: for a pointer at least its threshold away from every node (a distance
\* equal to the threshold included) the hit tester returns None, in every
\* reachable scene and viewport.
C3_FarFromAllIsNoSelection ==
    \A e \in PressEvents : FarFromAll(e) => get_ind_under_point(e) = NoInd

\* a press exactly epsilon pixels from a node has started a pan: no pointer-move
\* has panned yet, so the anchor is the press position
C3_Witness ==
    /\ nOps = 0 /\ _ind = NoInd /\ move_from # NoAnchor
    /\ LET e == Event("press", move_from, 1, "")
       IN  /\ FarFromAll(e)
           /\ \E i \in Idx : Dist2(i, e) = epsilon * epsilon

WithinOnly(i, e) ==
    /\ Dist2(i, e) < Threshold(i) * Threshold(i)
    /\ \A j \in Idx \ {i} : Dist2(j, e) >= Threshold(j) * Threshold(j)

\* C4: a press within the threshold of exactly one node selects that node, in
\* fixed-threshold mode and in per-node-radius mode.
C4_WithinExactlyOneSelectsIt ==
    [][\A i \in Idx : \A e \in PressEvents :
        (PressProceeds(e) /\ WithinOnly(i, e) /\ button_press_callback(e)) => _ind' = i
      ]_vars

\* C5: a pointer-move in Idle, and a pointer-move without the primary button
\* in any state, changes neither the viewport nor the scene.
C5_IdleOrOtherButtonMoveChangesNothing ==
    [][\A e \in MoveEvents :
        ((Idle \/ e.button # 1) /\ motion_notify_callback(e)) =>
            UNCHANGED <<xlim, ylim, nodes, nodes0, edges, labels>>
      ]_vars

\* a pointer-move was delivered in Idle after the scene or viewport had been
\* changed, and returned early
C5_Witness == hist.kind = "return" /\ Idle /\ nOps > 0

\* the pointer-move e is delivered while Panning, with the primary button held
\* and the pointer inside the axes
PanCase(e) == e.button = 1 /\ InAxes(e.x, e.y) /\ move_from # NoAnchor

\* C6: while Panning, a pointer-move by (dx, dy) followed by the pointer-move
\* by (-dx, -dy) leaves the viewport where it was before the first.
C6_PanThereAndBack ==
    [][\A e \in MoveEvents :
        (/\ hist.kind = "pan"
         /\ PanCase(e)
         /\ e.x - move_from[1] = -hist.dx
         /\ e.y - move_from[2] = -hist.dy
         /\ motion_notify_callback(e))
        => /\ Near(xlim'[1], hist.xlim[1]) /\ Near(xlim'[2], hist.xlim[2])
           /\ Near(ylim'[1], hist.ylim[1]) /\ Near(ylim'[2], hist.ylim[2])
      ]_vars

\* two pans have run, the second has moved the viewport on both axes and has
\* brought it back to where the first found it
C6_Witness ==
    /\ hist.kind = "pan" /\ hist.dx # 0 /\ hist.dy # 0
    /\ nOps = 2
    /\ xlim = InitialXlim /\ ylim = InitialYlim
    /\ hist.xlim # xlim /\ hist.ylim # ylim

\* C7: scroll 'up' then 'down' (or 'down' then 'up') returns the viewport to
\* its bounds before the first scroll.
C7_ZoomThereAndBack ==
    [][\A e \in ScrollEvents :
        (/\ hist.kind = "scroll"
         /\ {hist.dir, e.dir} = {"up", "down"}
         /\ zoom_fun(e))
        => /\ Near(xlim'[1], hist.xlim[1]) /\ Near(xlim'[2], hist.xlim[2])
           /\ Near(ylim'[1], hist.ylim[1]) /\ Near(ylim'[2], hist.ylim[2])
      ]_vars

\* the load task has opened, and then has read, the file that a save wrote
\* while no load task was running
ReadingSaved == saved.quiet /\ load_f = "pos.txt" /\ disk.lines = saved.lines
LoadingSaved == saved.quiet /\ load_f = "pos.txt" /\ lines = saved.lines

\* C8: loading the file a save wrote gives a mapping with the graph's node
\* identifiers as keys and the saved positions as values, and the rebuilt
\* labels, edges and nodes are at those positions.
C8_SaveLoadRoundTrip ==
    [][/\ (ReadingSaved /\ load_thread_read) =>
              /\ DOMAIN initial_position' = NodeIds(G)
              /\ \A i \in Idx :
                    /\ initial_position'[G.nodes[i]] = saved.nodes[i]
                    /\ initial_position'[G.nodes[i]] = saved.labels[i].pos
       /\ (LoadingSaved /\ load_thread_labels) =>
              \A i \in Idx : labels'[i].pos = saved.labels[i].pos
       /\ (LoadingSaved /\ load_thread_edges) =>
              \A k \in 1..Len(edges) :
                    /\ edges'[k].posA = initial_position[G.edges[k][1]]
                    /\ edges'[k].posB = initial_position[G.edges[k][2]]
       /\ (LoadingSaved /\ load_thread_nodes) =>
              \A i \in Idx : nodes'[i] = saved.nodes[i]
      ]_vars

\* C9: from Idle a primary press inside the axes selects the node the hit
\* tester returns for it, and otherwise starts panning from the press position.
C9_PressLeavesIdle ==
    [][\A e \in PressEvents :
        (e.button = 1 /\ InAxes(e.x, e.y) /\ Idle /\ button_press_callback(e)) =>
            LET hit == get_ind_under_point(e)
            IN  IF hit # NoInd
                THEN _ind' = hit /\ move_from' = NoAnchor
                ELSE _ind' = NoInd /\ move_from' = <<e.x, e.y>>
      ]_vars

\* C10: a node index and a panning anchor are never set together.
C10_SelectionExclusive == ~(_ind # NoInd /\ move_from # NoAnchor)

\* C11: after any sequence of press, move and release events every label is at
\* the position of its own node.
C11_LabelsAtTheirNodes == \A i \in Idx : labels[i].pos = nodes[i]

\* C12: a scroll whose direction is neither 'up' nor 'down' leaves the x and y
\* limits as they were.
C12_OtherScrollIsNoOp ==
    [][\A e \in ScrollEvents :
        (e.dir \notin {"up", "down"} /\ zoom_fun(e)) => UNCHANGED <<xlim, ylim>>
      ]_vars

\* C13: a primary release clears the node index and the panning anchor, a
\* release of another button leaves both as they were, and neither changes the
\* viewport or the scene.
C13_ReleaseReturnsToIdle ==
    [][\A e \in ReleaseEvents :
        button_release_callback(e) =>
            /\ UNCHANGED <<xlim, ylim, nodes, nodes0, edges, labels>>
            /\ IF e.button = 1
               THEN _ind' = NoInd /\ move_from' = NoAnchor
               ELSE UNCHANGED <<_ind, move_from>>
      ]_vars

\* a node has been dragged (no load was started: the viewport is the initial
\* one) and the controller is Idle again, which only a primary release does
C13_Witness ==
    /\ Idle /\ hist.kind = ""
    /\ nOps = 1
    /\ xlim = InitialXlim /\ ylim = InitialYlim
    /\ nodes # draw_networkx_nodes(G, PositionOf(G))
    /\ load_pc = "idle" /\ btn2_label = "Load positions"

\* the axis went from old to new by moving its two bounds apart by the same
\* amount, its width growing by the factor 1 + s / LogDen
ZoomedBy(old, new, s) ==
    /\ old[1] - new[1] = new[2] - old[2]
    /\ Abs((new[2] - new[1]) * LogDen - (old[2] - old[1]) * (LogDen + s)) <= Tol * LogDen

\* C14: a scroll 'up' or 'down' keeps the centre of both axes, wherever the
\* cursor is: each lower bound goes down and each upper bound up by half-range
\* times scale_factor, ln(1/0.9) for 'up' and ln(0.9) for 'down'.
C14_ZoomKeepsCentre ==
    [][\A e \in ScrollEvents :
        zoom_fun(e) =>
            /\ xlim[1] - xlim'[1] = xlim'[2] - xlim[2]
            /\ ylim[1] - ylim'[1] = ylim'[2] - ylim[2]
            /\ e.dir \in {"up", "down"} =>
                  LET s == IF e.dir = "up" THEN LogNum ELSE -LogNum
                  IN  ZoomedBy(xlim, xlim', s) /\ ZoomedBy(ylim, ylim', s)
      ]_vars

\* a scroll 'down' has narrowed both axes around their centres
C14_Witness ==
    /\ hist.kind = "scroll" /\ hist.dir = "down"
    /\ xlim[2] - xlim[1] < hist.xlim[2] - hist.xlim[1]
    /\ ylim[2] - ylim[1] < hist.ylim[2] - hist.ylim[1]
    /\ xlim[1] + xlim[2] = hist.xlim[1] + hist.xlim[2]
    /\ ylim[1] + ylim[2] = hist.ylim[1] + hist.ylim[2]

\* the axis went from old to new by a shift of -d / 300 times its range
ShiftedBy(old, new, d) ==
    /\ new[2] - new[1] = old[2] - old[1]
    /\ Abs((old[1] - new[1]) * PanDivisor - d * (old[2] - old[1])) <= Tol * PanDivisor

\* C15: a pointer-move while Panning shifts both bounds of each axis by
\* -(position - anchor) / 300 times the axis's range and makes the position
\* the new anchor; two pans in a row shift by what one pan over the sum of
\* their displacements shifts.
C15_PanShiftsByDisplacement ==
    [][\A e \in MoveEvents :
        (PanCase(e) /\ motion_notify_callback(e)) =>
            LET dx == e.x - move_from[1]
                dy == e.y - move_from[2]
            IN  /\ ShiftedBy(xlim, xlim', dx)
                /\ ShiftedBy(ylim, ylim', dy)
                /\ move_from' = <<e.x, e.y>>
                /\ hist.kind = "pan" =>
                      /\ ShiftedBy(hist.xlim, xlim', hist.dx + dx)
                      /\ ShiftedBy(hist.ylim, ylim', hist.dy + dy)
      ]_vars

\* two pans in a row, neither undoing the other, on the unzoomed viewport
C15_Witness ==
    /\ hist.kind = "pan" /\ nOps = 2
    /\ move_from # NoAnchor
    /\ xlim[2] - xlim[1] = InitialXlim[2] - InitialXlim[1]
    /\ hist.xlim # InitialXlim /\ hist.ylim # InitialYlim
    /\ xlim # hist.xlim /\ ylim # hist.ylim
    /\ xlim # InitialXlim /\ ylim # InitialYlim

\* C16: a step that is neither a scroll nor a pointer-move while Panning
\* (press, release, node drag, save, load) leaves the x and y limits as they
\* were.
C16_OnlyScrollAndPanMoveTheView ==
    [][(/\ ~ \E e \in ScrollEvents : zoom_fun(e)
        /\ ~ \E e \in MoveEvents : PanCase(e) /\ motion_notify_callback(e))
        => UNCHANGED <<xlim, ylim>>
      ]_vars

\* C17: once the Save handler has returned, the caption is 'Saving...' while
\* the save task is in flight and 'Save positions' when no save task is
\* running, in every interleaving of the two threads.
C17_SaveCaptionFollowsTask ==
    ui_pc # "save" =>
        btn1_label = IF save_pc = "idle" THEN "Save positions" ELSE "Saving..."

\* C18: whatever the load task meets, it ends with the caption back at
\* 'Load positions' (nothing else writes that caption once the task is over).
C18_LoadCaptionReturns ==
    [][(load_pc # "idle" /\ load_pc' = "idle") => btn2_label' = "Load positions"]_vars

\* C19: when the load task completes after a successful load, every label and
\* every endpoint of an edge between two nodes is at its node's position,
\* however pointer-moves interleave with the rebuild steps.
C19_LoadReplacesWholeScene ==
    [][(load_thread_caption /\ load_f # "") =>
        /\ \A i \in Idx : labels'[i].pos = nodes'[i]
        /\ \A k \in 1..Len(edges') : OwnerA(k) # OwnerB(k) =>
            /\ edges'[k].posA = nodes'[OwnerA(k)]
            /\ edges'[k].posB = nodes'[OwnerB(k)]]_vars

Malformed(name) == \E i \in 1..Len(Content(name)) : ~LineParses(Content(name)[i])

\* C20: the load task's steps up to and including the parse of the whole file
\* leave the node, edge and label containers and their positions as they are;
\* a file with a malformed line ends the task at the parse, before the axes
\* are cleared, and a cancelled dialog leads only to the caption reset, which
\* leaves the scene alone as well.
C20_AbortedLoadLeavesScene ==
    [][/\ (load_thread_cancel \/ load_thread_open \/ load_thread_read) =>
            UNCHANGED scene
       /\ (load_thread_read /\ Malformed(load_f)) =>
            load_pc' = "idle" /\ initial_position' = EmptyMap
       /\ (load_thread_cancel \/ (load_thread_caption /\ load_f = "")) =>
            load_pc' \in {"caption", "idle"} /\ UNCHANGED scene]_vars

\* a load of a file with a malformed line has just been aborted after the
\* node under the pointer was dragged; the scene is the dragged one
C20_Witness ==
    /\ hist.kind = "ValueError"
    /\ load_pc = "idle"
    /\ nOps = 2
    /\ nodes # draw_networkx_nodes(G, PositionOf(G))
    /\ \A i \in Idx : labels[i].pos = nodes[i]

====
